---- MODULE Spec2Model ----
(***************************************************************************)
(* Clans API (src/main.py): a FastAPI service with four data handlers      *)
(* (create_clan, list_clans, get_clan, delete_clan), a health route, a     *)
(* lazily constructed global psycopg2 SimpleConnectionPool and a startup   *)
(* migrate.  Sync handlers run on worker threads, so requests interleave   *)
(* at every blocking call (pool construction, getconn, execute, commit,    *)
(* putconn).  The database and the pool library are the environment: the   *)
(* server can become unreachable and come back, which kills every open     *)
(* session; a statement on a dead session raises and marks the connection  *)
(* closed; a statement on a missing table raises and leaves the            *)
(* transaction in error.  An outage takes effect between two database      *)
(* calls, never in the middle of one.  gen_random_uuid() is modelled as    *)
(* never repeating a value.  The pool's getconn and putconn are atomic     *)
(* steps and putconn does not raise.                                       *)
(***************************************************************************)
EXTENDS Integers, Sequences, FiniteSets, TLC

\* ---- bounds of the model ----
NThreads == 2
MaxIds == 2

\* ---- ENV: DB_MIN_CONNS and DB_MAX_CONNS, here set to 1 and 1 (the defaults
\* are 1 and 5) so that two workers are enough to exhaust a pool ----
MIN_CONNS == 1
MAX_CONNS == 1

Threads == 1..NThreads
Ids == 1..MaxIds

\* ---- strings, abstracted to (collation code, length) ----
Str(c, n) == [code |-> c, len |-> n]
NoStr == Str(-1, -1)
Empty == Str(0, 0)
Alpha == Str(1, 5)
Beta == Str(2, 4)
Name255 == Str(3, 255)
Name256 == Str(4, 256)
EU == Str(1, 2)
US == Str(2, 2)
Region16 == Str(3, 16)
Region17 == Str(4, 17)

\* ---- path parameter of /clans/{clan_id}: a text with `hex` hex digits ----
UuidText(v) == [hex |-> 32, v |-> v]
BadUuidText == [hex |-> 31, v |-> 1]
NoId == [hex |-> 0, v |-> 0]

\* ---- rows of the clans table ----
Row(i, n, r, ts) == [id |-> i, name |-> n, region |-> r, created_at |-> ts]
NoRow == Row(0, NoStr, NoStr, 0)

\* ---- connections (psycopg2 connection objects) ----
\* tx: the client-side transaction status; closed: the client knows the
\* connection is unusable; alive: the server session still exists;
\* pend: the uncommitted change of the open transaction.
NoPend == [k |-> "none", row |-> NoRow]
NewConn == [tx |-> "idle", closed |-> FALSE, alive |-> TRUE, pend |-> NoPend]
NoConn == [tx |-> "none", closed |-> TRUE, alive |-> FALSE, pend |-> NoPend]

\* ---- pools ----
\* a pool is named by its rank among the pools constructed so far
NoPool == 0
PoolIds == 1..NThreads
EmptyPool == [built |-> FALSE, idle |-> <<>>, used |-> 0]

\* ---- requests and responses ----
Req(op, name, region, cid, sort_by, order, limit, offset) ==
    [op |-> op, name |-> name, region |-> region, clan_id |-> cid,
     sort_by |-> sort_by, order |-> order, limit |-> limit, offset |-> offset]
NoReq == Req("none", NoStr, NoStr, NoId, "", "", 0, 0)
CreateReq(n, r) == Req("create", n, r, NoId, "", "", 0, 0)
ListReq(r, s, o, l, off) == Req("list", NoStr, r, NoId, s, o, l, off)
GetReq(c) == Req("get", NoStr, NoStr, c, "", "", 0, 0)
DeleteReq(c) == Req("delete", NoStr, NoStr, c, "", "", 0, 0)

Resp(status, detail, id, rows) ==
    [status |-> status, detail |-> detail, id |-> id, rows |-> rows]
NoResp == Resp(0, "", 0, <<>>)
DbError500 == Resp(500, "DB error", 0, <<>>)
Unhandled500 == Resp(500, "Internal Server Error", 0, <<>>)
NotFound404 == Resp(404, "Clan not found", 0, <<>>)
Validation422 == Resp(422, "validation", 0, <<>>)

CreateInputs ==
    { CreateReq(Alpha, EU), CreateReq(Beta, US), CreateReq(Name255, Region16),
      CreateReq(Empty, EU), CreateReq(Name256, EU),
      CreateReq(Alpha, Empty), CreateReq(Alpha, Region17) }

ListInputs ==
    { ListReq(NoStr, "created_at", "desc", 100, 0),
      ListReq(EU, "name", "asc", 1000, 0),
      ListReq(Empty, "region", "DESC", 1, 0),
      ListReq(NoStr, "id", "asc", 1, 1),
      ListReq(NoStr, "bogus", "asc", 100, 0),
      ListReq(NoStr, "id", "sideways", 100, 0),
      ListReq(NoStr, "id", "asc", 0, 0),
      ListReq(NoStr, "id", "asc", 1001, 0),
      ListReq(NoStr, "id", "asc", 1, -1) }

IdInputs == { UuidText(i) : i \in Ids } \cup { BadUuidText }

\* the requests a single worker is driven with
Requests ==
    CreateInputs \cup ListInputs
    \cup { GetReq(c) : c \in IdInputs } \cup { DeleteReq(c) : c \in IdInputs }

\* the requests concurrent workers are driven with
CoreRequests ==
    { CreateReq(Alpha, EU), CreateReq(Beta, US),
      ListReq(NoStr, "created_at", "desc", 100, 0),
      GetReq(UuidText(1)), DeleteReq(UuidText(1)) }

VARIABLES
    dbUp,        \* the database server is reachable
    tableExists, \* the schema and the clans table exist
    table,       \* the committed rows
    usedIds,     \* every id gen_random_uuid() has produced
    conn_pool,   \* the global: NoPool or a pool id
    pools,       \* pool id -> [built, idle, used]
    mpc, mconn,  \* the startup migrate: position and its connection
    pc, req, pool_, conn, resp,   \* per worker thread: the running handler
    touched,     \* per request: the database accesses it has made
    created,     \* the rows the creates have committed, in commit order
    deleted,     \* the ids whose delete has committed the removal of a row
    known        \* per get/delete request: what had been committed about its id when it was issued

vars == <<dbUp, tableExists, table, usedIds, conn_pool, pools, mpc, mconn,
          pc, req, pool_, conn, resp, touched, created, deleted, known>>

envVars == <<dbUp, tableExists, table, usedIds>>
ghostVars == <<created, deleted, known>>
migVars == <<mpc, mconn>>

\* ---- declared validation (FastAPI / pydantic), before the handler runs ----
ValidName(s) == s.len >= 1 /\ s.len <= 255
ValidRegion(s) == s.len >= 1 /\ s.len <= 16
ValidLimitFromZero(l) == l >= 0 /\ l <= 1000
ValidLimit(l) == l >= 1 /\ l <= 1000
ValidOffset(o) == o >= 0
IsUuid(c) == c.hex = 32

Valid(r) ==
    CASE r.op = "create" -> ValidName(r.name) /\ ValidRegion(r.region)
      [] r.op = "list" -> ValidLimit(r.limit) /\ ValidOffset(r.offset)
      [] r.op \in {"get", "delete"} -> IsUuid(r.clan_id)
      [] OTHER -> TRUE

\* ---- psycopg2.pool.SimpleConnectionPool ----
ConstructPool == [built |-> TRUE, idle |-> [i \in 1..MIN_CONNS |-> NewConn], used |-> 0]

\* getconn: "conn" for a connection, else the error raised
GetConnOutcome(p, up) ==
    IF Len(p.idle) > 0 THEN "idle"
    ELSE IF p.used = MAX_CONNS THEN "exhausted"
    ELSE IF up THEN "new"
    ELSE "unreachable"

PoolAfterGet(p) ==
    IF Len(p.idle) > 0
    THEN [p EXCEPT !.idle = SubSeq(p.idle, 1, Len(p.idle) - 1), !.used = p.used + 1]
    ELSE [p EXCEPT !.used = p.used + 1]

ConnOfGet(p) == IF Len(p.idle) > 0 THEN p.idle[Len(p.idle)] ELSE NewConn

\* conn.rollback() on an open connection: the pending change is dropped
Rollback(c) == [c EXCEPT !.tx = "idle", !.pend = NoPend]

\* the connection after conn.commit(): the pending change has been applied
Committed(c) == [c EXCEPT !.tx = "idle", !.pend = NoPend]

\* putconn: a closed connection is discarded; below minconn idle connections
\* the connection is reset and kept; otherwise it is closed
PutConnPool(p, c) ==
    IF ~c.closed /\ Len(p.idle) < MIN_CONNS
    THEN [p EXCEPT !.idle = Append(p.idle, Rollback(c)), !.used = p.used - 1]
    ELSE [p EXCEPT !.used = p.used - 1]

\* a pool no longer referenced (the global was overwritten by a racing
\* get_pool() and the last handler using it has returned) is reclaimed by
\* reference counting, which closes its connections
Reclaimed == [built |-> TRUE, idle |-> <<>>, used |-> 0]

\* the number of pools constructed so far
Built(ps) == Cardinality({ p \in PoolIds : ps[p].built })

\* the server going away ends every session and its open transaction
Kill(c) == IF c = NoConn THEN c ELSE [c EXCEPT !.alive = FALSE, !.pend = NoPend]
KillPool(p) == [p EXCEPT !.idle = [i \in 1..Len(p.idle) |-> Kill(p.idle[i])]]

Init ==
    /\ dbUp \in BOOLEAN
    /\ tableExists \in BOOLEAN
    /\ table = {}
    /\ usedIds = {}
    /\ conn_pool = NoPool
    /\ pools = [p \in PoolIds |-> EmptyPool]
    /\ mpc = "get_pool"
    /\ mconn = NoConn
    /\ pc = [t \in Threads |-> "done"]
    /\ req = [t \in Threads |-> NoReq]
    /\ pool_ = [t \in Threads |-> NoPool]
    /\ conn = [t \in Threads |-> NoConn]
    /\ resp = [t \in Threads |-> NoResp]
    /\ touched = [t \in Threads |-> {}]
    /\ created = <<>>
    /\ deleted = {}
    /\ known = [t \in Threads |-> "none"]

\* ---- the environment ----
DBDown ==
    /\ dbUp
    /\ dbUp' = FALSE
    /\ pools' = [p \in PoolIds |-> KillPool(pools[p])]
    /\ conn' = [t \in Threads |-> Kill(conn[t])]
    /\ mconn' = Kill(mconn)
    /\ UNCHANGED <<tableExists, table, usedIds, conn_pool, mpc,
                   pc, req, pool_, resp, touched, ghostVars>>

DBUp ==
    /\ ~dbUp
    /\ dbUp' = TRUE
    /\ UNCHANGED <<tableExists, table, usedIds, conn_pool, pools, migVars,
                   pc, req, pool_, conn, resp, touched, ghostVars>>

\* ---- startup: migrate() ----
threadVars == <<pc, req, pool_, conn, resp, touched>>

MigrateGetPool ==
    /\ mpc = "get_pool"
    /\ IF dbUp
       THEN /\ pools' = [pools EXCEPT ![Built(pools) + 1] = ConstructPool]
            /\ conn_pool' = Built(pools) + 1
            /\ mpc' = "getconn"
       ELSE /\ mpc' = "done"
            /\ UNCHANGED <<pools, conn_pool>>
    /\ UNCHANGED <<envVars, mconn, threadVars, ghostVars>>

MigrateGetConn ==
    /\ mpc = "getconn"
    /\ LET p == pools[conn_pool]
           o == GetConnOutcome(p, dbUp)
       IN IF o \in {"idle", "new"}
          THEN /\ mconn' = ConnOfGet(p)
               /\ pools' = [pools EXCEPT ![conn_pool] = PoolAfterGet(p)]
               /\ mpc' = "execute"
          ELSE /\ mpc' = "done"
               /\ UNCHANGED <<mconn, pools>>
    /\ UNCHANGED <<envVars, conn_pool, threadVars, ghostVars>>

\* the three schema statements; any of them may fail
MigrateExecute ==
    /\ mpc = "execute"
    /\ \E ok \in BOOLEAN :
         IF ~mconn.alive
         THEN mconn' = [mconn EXCEPT !.closed = TRUE] /\ mpc' = "putconn"
         ELSE IF ok
         THEN mconn' = [mconn EXCEPT !.tx = "intrans", !.pend = [k |-> "ddl", row |-> NoRow]]
              /\ mpc' = "commit"
         ELSE mconn' = [mconn EXCEPT !.tx = "inerror", !.pend = NoPend] /\ mpc' = "putconn"
    /\ UNCHANGED <<envVars, conn_pool, pools, threadVars, ghostVars>>

MigrateCommit ==
    /\ mpc = "commit"
    /\ IF mconn.alive
       THEN /\ tableExists' = TRUE
            /\ mconn' = Committed(mconn)
       ELSE /\ mconn' = [mconn EXCEPT !.closed = TRUE]
            /\ UNCHANGED tableExists
    /\ mpc' = "putconn"
    /\ UNCHANGED <<dbUp, table, usedIds, conn_pool, pools, threadVars, ghostVars>>

MigratePutConn ==
    /\ mpc = "putconn"
    /\ pools' = [pools EXCEPT ![conn_pool] = PutConnPool(pools[conn_pool], mconn)]
    /\ mconn' = NoConn
    /\ mpc' = "done"
    /\ UNCHANGED <<envVars, conn_pool, threadVars, ghostVars>>

Migrate == MigrateGetPool \/ MigrateGetConn \/ MigrateExecute \/ MigrateCommit \/ MigratePutConn

\* ---- request arrival: routing and declared validation ----
CreatedIds == { created[i].id : i \in 1..Len(created) }

\* creates that may still draw an id (keeps usedIds within Ids)
InFlightCreates ==
    Cardinality({ t \in Threads : req[t].op = "create" /\ pc[t] # "done" })

\* what has been committed about the id a get or delete names: every 201
\* response follows its create's commit, every 200 of a delete its commit
Known(r) ==
    IF r.op \notin {"get", "delete"} THEN "none"
    ELSE IF r.clan_id.v \in deleted THEN "deleted"
    ELSE IF r.clan_id.v \in CreatedIds THEN "created"
    ELSE "none"

\* pools once thread t has dropped its reference to pool p
Collect(ps, t, p) ==
    IF p # NoPool /\ p # conn_pool /\ \A u \in Threads \ {t} : pool_[u] # p
    THEN [ps EXCEPT ![p] = Reclaimed]
    ELSE ps

\* list_clans: the sort_by / order checks, inside the try; "" when they pass
Lower(s) == CASE s = "DESC" -> "desc" [] s = "ASC" -> "asc" [] OTHER -> s
AllowedCols == {"id", "name", "region", "created_at"}

ListRejects(r) ==
    IF r.op # "list" THEN ""
    ELSE IF r.sort_by \notin AllowedCols THEN "Invalid sort_by"
    ELSE IF Lower(r.order) \notin {"asc", "desc"} THEN "Invalid order"
    ELSE ""

\* the handler from the return of get_pool() to its first blocking call
Enter(t, r, p) ==
    IF ListRejects(r) # ""
    THEN /\ resp' = [resp EXCEPT ![t] = Resp(400, ListRejects(r), 0, <<>>)]
         /\ pc' = [pc EXCEPT ![t] = "done"]
         /\ pool_' = [pool_ EXCEPT ![t] = NoPool]
    ELSE /\ resp' = [resp EXCEPT ![t] = NoResp]
         /\ pc' = [pc EXCEPT ![t] = "getconn"]
         /\ pool_' = [pool_ EXCEPT ![t] = p]

\* a request arrives: declared validation, then the handler runs up to its
\* first blocking call; get_pool() reads the global without a lock
Start(t, R) ==
    /\ mpc = "done"
    /\ pc[t] = "done"
    /\ \E r \in R :
         /\ r.op = "create" /\ Valid(r) => Cardinality(usedIds) + InFlightCreates < MaxIds
         /\ req' = [req EXCEPT ![t] = r]
         /\ known' = [known EXCEPT ![t] = Known(r)]
         /\ IF ~Valid(r)
            THEN /\ resp' = [resp EXCEPT ![t] = Validation422]
                 /\ UNCHANGED <<pc, pool_>>
            ELSE IF conn_pool = NoPool
            THEN /\ pc' = [pc EXCEPT ![t] = "construct"]
                 /\ resp' = [resp EXCEPT ![t] = NoResp]
                 /\ UNCHANGED pool_
            ELSE Enter(t, r, conn_pool)
    /\ touched' = [touched EXCEPT ![t] = {}]
    /\ UNCHANGED <<envVars, conn_pool, pools, migVars, conn, created, deleted>>

Health(t) ==
    /\ mpc = "done"
    /\ pc[t] = "done"
    /\ req' = [req EXCEPT ![t] = Req("health", NoStr, NoStr, NoId, "", "", 0, 0)]
    /\ resp' = [resp EXCEPT ![t] = Resp(200, "ok", 0, <<>>)]
    /\ touched' = [touched EXCEPT ![t] = {}]
    /\ known' = [known EXCEPT ![t] = "none"]
    /\ UNCHANGED <<envVars, conn_pool, pools, migVars, pc, pool_, conn, created, deleted>>

\* ---- get_pool(): the construction, after conn_pool was read as None ----
\* the call is outside the handlers' try: a connection failure is unhandled
GetPoolConstruct(t) ==
    /\ pc[t] = "construct"
    /\ touched' = [touched EXCEPT ![t] = @ \cup {"pool"}]
    /\ IF dbUp
       THEN /\ pools' = [pools EXCEPT ![Built(pools) + 1] = ConstructPool]
            /\ conn_pool' = Built(pools) + 1
            /\ Enter(t, req[t], Built(pools) + 1)
       ELSE /\ resp' = [resp EXCEPT ![t] = Unhandled500]
            /\ pc' = [pc EXCEPT ![t] = "done"]
            /\ UNCHANGED <<pools, conn_pool, pool_>>
    /\ UNCHANGED <<envVars, migVars, req, conn, ghostVars>>

\* ---- the handlers' except clauses ----
\* the response when psycopg2.Error is raised before a connection is held
ErrorNoConn(op) == IF op = "delete" THEN Unhandled500 ELSE DbError500

\* the response and the connection when psycopg2.Error is raised on conn c:
\* create rolls back (which raises on a closed connection), list and get
\* only translate, delete has no except clause
ErrorResp(op, c) ==
    IF op = "create" THEN (IF c.closed THEN Unhandled500 ELSE DbError500)
    ELSE IF op = "delete" THEN Unhandled500
    ELSE DbError500

ErrorConnNoRollback(op, c) == c
ErrorConn(op, c) == IF op = "create" /\ ~c.closed THEN Rollback(c) ELSE c

\* ---- pool_.getconn() ----
GetConn(t) ==
    /\ pc[t] = "getconn"
    /\ touched' = [touched EXCEPT ![t] = @ \cup {"getconn"}]
    /\ LET p == pools[pool_[t]]
           o == GetConnOutcome(p, dbUp)
       IN IF o \in {"idle", "new"}
          THEN /\ conn' = [conn EXCEPT ![t] = ConnOfGet(p)]
               /\ pools' = [pools EXCEPT ![pool_[t]] = PoolAfterGet(p)]
               /\ pc' = [pc EXCEPT ![t] = "execute"]
               /\ UNCHANGED <<resp, pool_>>
          ELSE /\ resp' = [resp EXCEPT ![t] = ErrorNoConn(req[t].op)]
               /\ pc' = [pc EXCEPT ![t] = "done"]
               /\ pool_' = [pool_ EXCEPT ![t] = NoPool]
               /\ pools' = Collect(pools, t, pool_[t])
               /\ UNCHANGED conn
    /\ UNCHANGED <<envVars, conn_pool, migVars, req, ghostVars>>

\* ---- cur.execute(): how a statement on connection c ends ----
StmtOutcome(c) ==
    IF ~c.alive THEN "lost" ELSE IF ~tableExists THEN "notable" ELSE "ok"

FailedConn(c) ==
    IF ~c.alive THEN [c EXCEPT !.closed = TRUE, !.pend = NoPend]
    ELSE [c EXCEPT !.tx = "inerror", !.pend = NoPend]

\* the statement failed: except clause, then on to the finally
StmtFails(t) ==
    LET f == FailedConn(conn[t])
    IN /\ conn' = [conn EXCEPT ![t] = ErrorConn(req[t].op, f)]
       /\ resp' = [resp EXCEPT ![t] = ErrorResp(req[t].op, f)]
       /\ pc' = [pc EXCEPT ![t] = "putconn"]

Touch(t) == touched' = [touched EXCEPT ![t] = @ \cup {"exec"}]

\* ---- create_clan ----
\* gen_random_uuid(): a value never produced before
NewId(used) == CHOOSE i \in Ids \ used : \A j \in Ids \ used : i <= j

CreateExecute(t) ==
    /\ pc[t] = "execute" /\ req[t].op = "create"
    /\ Touch(t)
    /\ IF StmtOutcome(conn[t]) = "ok"
       THEN LET i == NewId(usedIds)
            IN
              /\ usedIds' = usedIds \cup {i}
              /\ conn' = [conn EXCEPT ![t] =
                    [@ EXCEPT !.tx = "intrans",
                              !.pend = [k |-> "ins",
                                        row |-> Row(i, req[t].name, req[t].region,
                                                    Cardinality(usedIds) + 1)]]]
              /\ pc' = [pc EXCEPT ![t] = "commit"]
              /\ UNCHANGED resp
       ELSE StmtFails(t) /\ UNCHANGED usedIds
    /\ UNCHANGED <<dbUp, tableExists, table, conn_pool, pools, migVars, req, pool_, ghostVars>>

CreateCommit(t) ==
    /\ pc[t] = "commit" /\ req[t].op = "create"
    /\ Touch(t)
    /\ IF conn[t].alive
       THEN /\ table' = table \cup {conn[t].pend.row}
            /\ created' = Append(created, conn[t].pend.row)
            /\ conn' = [conn EXCEPT ![t] = Committed(@)]
            /\ resp' = [resp EXCEPT ![t] =
                  Resp(201, "Clan created successfully.", conn[t].pend.row.id, <<>>)]
            /\ pc' = [pc EXCEPT ![t] = "putconn"]
       ELSE StmtFails(t) /\ UNCHANGED <<table, created>>
    /\ UNCHANGED <<dbUp, tableExists, usedIds, conn_pool, pools, migVars, req, pool_,
                   deleted, known>>

\* ---- list_clans ----
\* Clan(id=str(r[0]), name=r[1], region=r[2], created_at=r[3]) for r in rows
ClanOfList(x) == Row(x.id, x.name, x.region, x.created_at)
Truthy(s) == s # NoStr /\ s.len > 0

Filtered(r) == IF Truthy(r) THEN { x \in table : x.region = r } ELSE table

Key(x, col) ==
    CASE col = "id" -> x.id
      [] col = "name" -> x.name.code
      [] col = "region" -> x.region.code
      [] OTHER -> x.created_at

Ordered(s, col, o) ==
    \A i \in 1..(Len(s) - 1) :
        IF o = "asc" THEN Key(s[i], col) <= Key(s[i + 1], col)
        ELSE Key(s[i], col) >= Key(s[i + 1], col)

\* every order the database may return for ORDER BY col o (ties are free)
SortedSeqs(S, col, o) ==
    { s \in [1..Cardinality(S) -> S] :
        /\ \A i, j \in 1..Cardinality(S) : i # j => s[i] # s[j]
        /\ Ordered(s, col, o) }

Page(s, limit, offset) ==
    IF offset >= Len(s) THEN <<>>
    ELSE SubSeq(s, offset + 1, IF offset + limit < Len(s) THEN offset + limit ELSE Len(s))

ListExecute(t) ==
    /\ pc[t] = "execute" /\ req[t].op = "list"
    /\ Touch(t)
    /\ IF StmtOutcome(conn[t]) = "ok"
       THEN \E s \in SortedSeqs(Filtered(req[t].region), req[t].sort_by, Lower(req[t].order)) :
              /\ resp' = [resp EXCEPT ![t] =
                    Resp(200, "", 0,
                         LET pg == Page(s, req[t].limit, req[t].offset)
                         IN [i \in 1..Len(pg) |-> ClanOfList(pg[i])])]
              /\ conn' = [conn EXCEPT ![t] = [@ EXCEPT !.tx = "intrans"]]
              /\ pc' = [pc EXCEPT ![t] = "putconn"]
       ELSE StmtFails(t)
    /\ UNCHANGED <<envVars, conn_pool, pools, migVars, req, pool_, ghostVars>>

\* ---- get_clan ----
\* WHERE id = %s
Matching(i) == { x \in table : x.id = i }

\* Clan(id=str(row[0]), name=row[1], region=row[2], created_at=row[3])
ClanOfGetSwapped(x) == Row(x.id, x.region, x.name, x.created_at)
ClanOfGet(x) == Row(x.id, x.name, x.region, x.created_at)

GetExecute(t) ==
    /\ pc[t] = "execute" /\ req[t].op = "get"
    /\ Touch(t)
    /\ IF StmtOutcome(conn[t]) = "ok"
       THEN /\ resp' = [resp EXCEPT ![t] =
                  IF Matching(req[t].clan_id.v) = {} THEN NotFound404
                  ELSE LET x == CHOOSE x \in Matching(req[t].clan_id.v) : TRUE
                       IN Resp(200, "", x.id, <<ClanOfGet(x)>>)]
            /\ conn' = [conn EXCEPT ![t] = [@ EXCEPT !.tx = "intrans"]]
            /\ pc' = [pc EXCEPT ![t] = "putconn"]
       ELSE StmtFails(t)
    /\ UNCHANGED <<envVars, conn_pool, pools, migVars, req, pool_, ghostVars>>

\* ---- delete_clan ----
\* the table once the DELETE of row d (NoRow when none matched) is committed
AfterDeleteKeeps(tb, d) == tb
AfterDelete(tb, d) == tb \ {d}

\* another open transaction has deleted the row and not yet ended
Locked(i, t) ==
    \E u \in Threads \ {t} :
        conn[u].alive /\ conn[u].pend.k = "del" /\ conn[u].pend.row.id = i /\ i # 0

DeleteExecute(t) ==
    /\ pc[t] = "execute" /\ req[t].op = "delete"
    /\ StmtOutcome(conn[t]) = "ok" => ~Locked(req[t].clan_id.v, t)
    /\ Touch(t)
    /\ IF StmtOutcome(conn[t]) = "ok"
       THEN /\ conn' = [conn EXCEPT ![t] =
                  [@ EXCEPT !.tx = "intrans",
                            !.pend = [k |-> "del",
                                      row |-> IF Matching(req[t].clan_id.v) = {} THEN NoRow
                                              ELSE CHOOSE x \in Matching(req[t].clan_id.v) : TRUE]]]
            /\ pc' = [pc EXCEPT ![t] = "commit"]
            /\ UNCHANGED resp
       ELSE StmtFails(t)
    /\ UNCHANGED <<envVars, conn_pool, pools, migVars, req, pool_, ghostVars>>

DeleteCommit(t) ==
    /\ pc[t] = "commit" /\ req[t].op = "delete"
    /\ Touch(t)
    /\ IF conn[t].alive
       THEN LET d == conn[t].pend.row
            IN /\ table' = AfterDelete(table, d)
               /\ deleted' = IF d = NoRow THEN deleted ELSE deleted \cup {d.id}
               /\ conn' = [conn EXCEPT ![t] = Committed(@)]
               /\ resp' = [resp EXCEPT ![t] =
                     IF d = NoRow THEN NotFound404
                     ELSE Resp(200, "Clan deleted successfully.", d.id, <<>>)]
               /\ pc' = [pc EXCEPT ![t] = "putconn"]
       ELSE StmtFails(t) /\ UNCHANGED <<table, deleted>>
    /\ UNCHANGED <<dbUp, tableExists, usedIds, conn_pool, pools, migVars, req, pool_,
                   created, known>>

\* ---- finally: if conn: pool_.putconn(conn); then the response goes out ----
FinallyUnlessClosed(ps, t) ==
    IF conn[t].closed THEN ps ELSE [ps EXCEPT ![pool_[t]] = PutConnPool(@, conn[t])]
Finally(ps, t) == [ps EXCEPT ![pool_[t]] = PutConnPool(@, conn[t])]

PutConn(t) ==
    /\ pc[t] = "putconn"
    /\ pools' = Collect(Finally(pools, t), t, pool_[t])
    /\ conn' = [conn EXCEPT ![t] = NoConn]
    /\ pool_' = [pool_ EXCEPT ![t] = NoPool]
    /\ pc' = [pc EXCEPT ![t] = "done"]
    /\ UNCHANGED <<envVars, conn_pool, migVars, req, resp, touched, ghostVars>>

Handler(t) ==
    \/ Health(t)
    \/ GetPoolConstruct(t) \/ GetConn(t)
    \/ CreateExecute(t) \/ CreateCommit(t)
    \/ ListExecute(t) \/ GetExecute(t)
    \/ DeleteExecute(t) \/ DeleteCommit(t)
    \/ PutConn(t)

\* ==== the claims ====
Holding == {"execute", "commit", "putconn"}
DataOps == {"create", "list", "get", "delete"}
Done(t) == pc[t] = "done"

\* C1: every connection obtained with getconn is given back with putconn
\* exactly once before its operation ends, on every exit path: each pool's
\* count of checked-out connections equals the number of running operations
\* that hold one of its connections, so it is 0 when no operation is running.
C1_Released ==
    /\ \A p \in PoolIds :
         pools[p].used =
           Cardinality({ t \in Threads : pc[t] \in Holding /\ pool_[t] = p })
           + (IF mpc \in Holding /\ conn_pool = p THEN 1 ELSE 0)
    /\ \A t \in Threads : Done(t) => conn[t] = NoConn
    /\ mpc = "done" => mconn = NoConn

\* a request that held a connection has ended in a 500 and nothing is checked out
C1_Witness ==
    /\ \E t \in Threads : Done(t) /\ resp[t].status = 500 /\ "exec" \in touched[t]
    /\ \A t \in Threads : Done(t)
    /\ \A p \in PoolIds : pools[p].used = 0
    /\ \E p \in PoolIds : pools[p].built

\* C2: list_clans with a bad sort_by or order always answers 400 and makes
\* no database access at all for that request (no pool construction, no
\* getconn, no statement), also when the pool does not exist yet.
C2_BadSortOrOrder(r) ==
    /\ r.op = "list" /\ r.limit >= 1 /\ r.limit <= 1000 /\ r.offset >= 0
    /\ \/ r.sort_by \notin {"id", "name", "region", "created_at"}
       \/ r.order \notin {"asc", "desc", "ASC", "DESC"}

C2_Claim ==
    \A t \in Threads :
        Done(t) /\ C2_BadSortOrOrder(req[t])
            => resp[t].status = 400 /\ touched[t] = {}

\* C3: the ids the creates return are pairwise distinct, a 201 carries the id
\* of the row committed with the request's name and region, and a get_clan
\* issued after the create, with no delete of the id since, that does not end
\* in a 500 database failure answers 200 with exactly that id, name and region.
C3_CreateThenGet ==
    /\ \A i, j \in 1..Len(created) : i # j => created[i].id # created[j].id
    /\ \A t \in Threads :
         pc[t] \in {"putconn", "done"} /\ resp[t].status = 201
            => \E i \in 1..Len(created) :
                 /\ created[i].id = resp[t].id
                 /\ created[i].name = req[t].name
                 /\ created[i].region = req[t].region
    /\ \A t \in Threads :
         /\ Done(t) /\ req[t].op = "get" /\ known[t] = "created"
         /\ req[t].clan_id.v \notin deleted
         /\ resp[t].status # 500
         => /\ resp[t].status = 200
            /\ Len(resp[t].rows) = 1
            /\ \E i \in 1..Len(created) :
                 /\ created[i].id = req[t].clan_id.v
                 /\ resp[t].rows[1].id = created[i].id
                 /\ resp[t].rows[1].name = created[i].name
                 /\ resp[t].rows[1].region = created[i].region

\* two creates have returned and a later get has read one of them back
C3_Witness ==
    /\ Len(created) = 2
    /\ \E t \in Threads :
         /\ Done(t) /\ req[t].op = "get" /\ known[t] = "created"
         /\ req[t].clan_id.v \notin deleted
         /\ resp[t].status = 200

\* C4: once a delete of an id has succeeded, every get_clan and delete_clan
\* issued later for that id that does not end in a 500 database failure
\* answers 404; and a delete that matches no row leaves the table as it was.
C4_Gone ==
    \A t \in Threads :
        Done(t) /\ req[t].op \in {"get", "delete"} /\ known[t] = "deleted"
        /\ resp[t].status # 500
        => resp[t].status = 404

C4_NoRowNoChange ==
    \A t \in Threads :
        pc[t] = "commit" /\ req[t].op = "delete" /\ pc'[t] = "putconn"
        /\ resp'[t].status = 404
        => table' = table

C4_DeleteThenNotFound == [](C4_Gone) /\ [][C4_NoRowNoChange]_vars

\* a second delete of a deleted id has answered 404 while another clan is stored
C4_Witness ==
    \E t \in Threads :
        /\ Done(t) /\ req[t].op = "delete" /\ known[t] = "deleted"
        /\ resp[t].status = 404
        /\ table # {}

\* C5: in each data handler a database error at any point (constructing the
\* pool, acquiring the connection, executing a statement) is caught by the
\* handler, which rolls back the transaction on the connection it holds and
\* answers 500 with the 'DB error: ...' detail.
C5_Claim ==
    /\ \A t \in Threads :
         Done(t) /\ req[t].op \in DataOps /\ resp[t].status = 500
            => resp[t] = DbError500
    /\ \A t \in Threads :
         pc[t] = "putconn" /\ resp[t].status = 500
            => conn[t].closed \/ conn[t].tx = "idle"

\* C6: under any interleaving at most one pool is ever constructed and the
\* number of live database connections never exceeds MAX_CONNS.
LiveIn(q) == Cardinality({ i \in 1..Len(q) : q[i].alive /\ ~q[i].closed })
RECURSIVE LiveIdle(_)
LiveIdle(P) ==
    IF P = {} THEN 0
    ELSE LET p == CHOOSE p \in P : TRUE
         IN LiveIn(pools[p].idle) + LiveIdle(P \ {p})
LiveConns ==
    LiveIdle(PoolIds)
    + Cardinality({ t \in Threads : conn[t].alive /\ ~conn[t].closed })
    + (IF mconn.alive /\ ~mconn.closed THEN 1 ELSE 0)

C6_Claim == Built(pools) <= 1 /\ LiveConns <= MAX_CONNS

\* C7: a failed startup migrate is swallowed; afterwards /health answers 200,
\* and a data request fails with a database error only while the database is
\* unreachable: a request whose connection's session is intact succeeds.
C7_Claim ==
    /\ \A t \in Threads : Done(t) /\ req[t].op = "health" => resp[t].status = 200
    /\ \A t \in Threads :
         pc[t] = "putconn" /\ resp[t].status = 500 => ~conn[t].alive

\* C8: with a region filter supplied (the empty string included), every
\* returned clan has exactly that region.
C8_Claim ==
    \A t \in Threads :
        Done(t) /\ req[t].op = "list" /\ resp[t].status = 200 /\ req[t].region # NoStr
            => \A i \in 1..Len(resp[t].rows) : resp[t].rows[i].region = req[t].region

\* C9: a request failing declared validation is answered 422 and never
\* reaches the database (no pool constructed, no connection acquired, no
\* statement run, stored clans unchanged); limit 1 and limit 1000 are accepted.
C9_Invalid(r) ==
    \/ r.op \in {"get", "delete"} /\ r.clan_id.hex # 32
    \/ r.op = "list" /\ (r.limit < 1 \/ r.limit > 1000 \/ r.offset < 0)
    \/ r.op = "create" /\ (r.name.len < 1 \/ r.name.len > 255)
    \/ r.op = "create" /\ (r.region.len < 1 \/ r.region.len > 16)

C9_Rejected ==
    \A t \in Threads :
        /\ Done(t) /\ C9_Invalid(req[t]) => resp[t] = Validation422 /\ touched[t] = {}
        /\ Done(t) /\ req[t].op = "list" /\ req[t].limit \in {1, 1000} /\ req[t].offset >= 0
             => resp[t].status # 422

C9_Untouched ==
    \A t \in Threads :
        req'[t] # req[t] /\ C9_Invalid(req'[t])
            => /\ UNCHANGED <<table, usedIds, conn_pool, pools, conn, pool_, pc>>
               /\ resp'[t] = Validation422

C9_ValidationFirst == [](C9_Rejected) /\ [][C9_Untouched]_vars

\* a malformed id was answered 422 while the pool, which the reachable
\* database would have let it construct, still does not exist
C9_Witness ==
    \E t \in Threads :
        /\ Done(t) /\ req[t] = GetReq(BadUuidText) /\ resp[t].status = 422
        /\ conn_pool = NoPool /\ dbUp

Next ==
    \/ DBDown \/ DBUp \/ Migrate
    \/ \E t \in Threads : Start(t, CoreRequests) \/ Handler(t)

Spec == Init /\ [][Next]_vars

\* one worker, every input
NextSerial ==
    \/ DBDown \/ DBUp \/ Migrate
    \/ Start(1, Requests) \/ Handler(1)

SpecSerial == Init /\ [][NextSerial]_vars
====
